---- MODULE Spec2Model ----
(***************************************************************************)
(* Model of default_syntax.py: the `set_default_syntax_dialect` command    *)
(* (SetDefaultSyntaxDialect.run) and its list input handler                *)
(* (DialectFileInputHandler.list_items).                                   *)
(*                                                                         *)
(* Text is a sequence of symbols.  Each symbol stands for a fixed string   *)
(* of characters: "extends:" is the literal the regular expressions look   *)
(* for, " " and "\n" are the whitespace characters (\s), "-" is the list   *)
(* dash, "x" is any other non-whitespace character, and a resource path    *)
(* ("Packages/...") is one symbol of non-whitespace characters.  Every     *)
(* symbol but " " and "\n" is matched by \S.  Scopes are sequences of      *)
(* the characters "a" and ".".                                             *)
(***************************************************************************)
EXTENDS Integers, Sequences, FiniteSets, TLC

VARIABLES
    registry,   \* sublime.list_syntaxes(): sequence of syntax records
    files,      \* resource path -> text, what load_resource returns
    last,       \* record of the most recent call of run
    listed,     \* what the input handler's list_items last returned
    hist,       \* history: the most recent calls, oldest first
    procs,      \* concurrent invocations of run: per process its position
    files0      \* history: the files when the concurrent invocations began

vars == <<registry, files, last, listed, hist, procs, files0>>

----------------------------------------------------------------------------
(* Symbols and whitespace *)

Extends == "extends:"
Space   == " "
Newline == "\n"
Dash    == "-"
Other   == "x"

IsSpace(ch) == ch \in {Space, Newline}

Path1 == "Packages/A/A.sublime-syntax"
Path2 == "Packages/A/B.sublime-syntax"
Path3 == "Packages/A/C.sublime-syntax"
BadPath == "BadPath"

SyntaxPaths == <<Path1, Path2, Path3>>
SyntaxNames == <<"A", "B", "C">>
PathSet == {SyntaxPaths[i] : i \in DOMAIN SyntaxPaths}

----------------------------------------------------------------------------
(* The regular expression  ^extends:\s+(?:-\s+)?(\S+)  with re.MULTILINE   *)

\* ^ under re.MULTILINE: the start of the text or just after a newline.
AtLineStart(c, i) == i = 1 \/ c[i - 1] = Newline

\* \s+ is greedy: the first index at or after i that holds no whitespace.
RECURSIVE SkipSpace(_, _)
SkipSpace(c, i) ==
    IF i <= Len(c) /\ IsSpace(c[i]) THEN SkipSpace(c, i + 1) ELSE i

\* \S+ is greedy: the first index at or after i that holds whitespace.
RECURSIVE SkipNonSpace(_, _)
SkipNonSpace(c, i) ==
    IF i <= Len(c) /\ ~IsSpace(c[i]) THEN SkipNonSpace(c, i + 1) ELSE i

\* An attempt to match the pattern at index i.  ok: whether it matches;
\* ts: first index of the \S+ token; te: index just after the token.
\* \s+ must take at least one character and cannot give any back to a
\* following "-" or \S; the optional group (?:-\s+)? is tried first and is
\* given up when no \S follows it.
MatchAt(c, i) ==
    LET k == SkipSpace(c, i + 1)
        m == SkipSpace(c, k + 1)
        group == /\ k <= Len(c)
                 /\ c[k] = Dash
                 /\ m > k + 1
                 /\ m <= Len(c)
        ts == IF group THEN m ELSE k
    IN  IF /\ i <= Len(c)
           /\ c[i] = Extends
           /\ AtLineStart(c, i)
           /\ k > i + 1
           /\ k <= Len(c)
        THEN [ok |-> TRUE, ts |-> ts, te |-> SkipNonSpace(c, ts)]
        ELSE [ok |-> FALSE, ts |-> 0, te |-> 0]

\* re.search: the leftmost match at or after index i.
RECURSIVE Search(_, _)
Search(c, i) ==
    IF i > Len(c) THEN [ok |-> FALSE, ts |-> 0, te |-> 0]
    ELSE LET m == MatchAt(c, i)
         IN  IF m.ok THEN m ELSE Search(c, i + 1)

\* re.sub(pattern, r"\1" + repl, c): every non-overlapping match, left to
\* right, keeps group 1 (all up to the token) and has its token replaced.
RECURSIVE SubFrom(_, _, _)
SubFrom(c, repl, i) ==
    IF i > Len(c) THEN <<>>
    ELSE LET m == MatchAt(c, i)
         IN  IF m.ok
             THEN SubSeq(c, i, m.ts - 1) \o repl \o SubFrom(c, repl, m.te)
             ELSE <<c[i]>> \o SubFrom(c, repl, i + 1)

Sub(c, repl) == SubFrom(c, repl, 1)

----------------------------------------------------------------------------
(* The host's registry and resources *)

\* sublime.syntax_from_path: the index of the syntax with this path, 0 (None)
\* when there is none.
syntax_from_path(reg, path) ==
    IF \E i \in DOMAIN reg : reg[i].path = path
    THEN CHOOSE i \in DOMAIN reg : reg[i].path = path
    ELSE 0

load_resource(fs, path) == fs[path]

\* Mutant: the file is opened in mode "a" and the text appended.
write_file_appends(fs, path, text) == [fs EXCEPT ![path] = fs[path] \o text]

\* open(Path(packages_path()).parent / path, "w", newline="\n").write(text):
\* the whole file is overwritten with the text, untranslated.
write_file(fs, path, text) == [fs EXCEPT ![path] = text]

NoDiag == <<>>

NoCall ==
    [op |-> "none", sf |-> "", df |-> "", diag |-> NoDiag, read |-> FALSE,
     wrote |-> FALSE, old |-> <<>>, new |-> <<>>]

----------------------------------------------------------------------------
(* DialectFileInputHandler.list_items *)

\* str.split("."): the segments between the dots; one more than the dots.
RECURSIVE split(_)
split(s) ==
    IF \A i \in DOMAIN s : s[i] # "."
    THEN <<s>>
    ELSE LET d == CHOOSE i \in DOMAIN s :
                      s[i] = "." /\ \A j \in 1..(i - 1) : s[j] # "."
         IN  <<SubSeq(s, 1, d - 1)>> \o split(SubSeq(s, d + 1, Len(s)))

\* str.startswith
startswith(s, prefix) ==
    Len(prefix) <= Len(s) /\ SubSeq(s, 1, Len(prefix)) = prefix

\* Mutant: a scope of one segment is its own filter scope, with no error.
default_scope_lenient(scope) ==
    LET default_scopes == split(scope)
    IN  IF Len(default_scopes) < 2
        THEN [error |-> "", scope |-> default_scopes[1]]
        ELSE [error |-> "",
              scope |-> default_scopes[1] \o <<".">> \o default_scopes[2]]

\* f"{default_scopes[0]}.{default_scopes[1]}"; indexing a missing second
\* segment raises IndexError.
default_scope(scope) ==
    LET default_scopes == split(scope)
    IN  IF Len(default_scopes) < 2
        THEN [error |-> "IndexError", scope |-> <<>>]
        ELSE [error |-> "",
              scope |-> default_scopes[1] \o <<".">> \o default_scopes[2]]

\* Mutant: the search lacks re.MULTILINE, ^ matches at the text's start only.
selected_syntax_not_multiline(reg, text) ==
    LET match == MatchAt(text, 1)
        token == SubSeq(text, match.ts, match.te - 1)
    IN  IF match.ok /\ Len(token) = 1
        THEN syntax_from_path(reg, token[1])
        ELSE 0

\* selected_syntax: the syntax the first match's token names, 0 when the
\* text has no match or the token is no registered path.
selected_syntax(reg, text) ==
    LET match == Search(text, 1)
        token == SubSeq(text, match.ts, match.te - 1)
    IN  IF match.ok /\ Len(token) = 1
        THEN syntax_from_path(reg, token[1])
        ELSE 0

\* Mutant: hidden syntaxes are not skipped.
is_candidate_shows_hidden(reg, u, i, prefix) ==
    /\ reg[i].path # reg[u].path
    /\ startswith(reg[i].scope, prefix)

\* The loop's three tests: whether syntax i becomes an item.
is_candidate(reg, u, i, prefix) ==
    /\ ~reg[i].hidden
    /\ reg[i].path # reg[u].path
    /\ startswith(reg[i].scope, prefix)

\* The loop over sublime.list_syntaxes(), from index i on.
RECURSIVE items_from(_, _, _, _, _)
items_from(reg, u, i, prefix, selected) ==
    IF i > Len(reg) THEN <<>>
    ELSE IF is_candidate(reg, u, i, prefix)
    THEN <<[text |-> reg[i].name, value |-> reg[i].path,
            kind |-> IF i = selected THEN "Selected" ELSE "Ambiguous"]>>
         \o items_from(reg, u, i + 1, prefix, selected)
    ELSE items_from(reg, u, i + 1, prefix, selected)

\* list_items of the handler made for syntax u.
list_items(reg, fs, u) ==
    LET ds == default_scope(reg[u].scope)
    IN  IF ds.error # ""
        THEN [error |-> ds.error, items |-> <<>>]
        ELSE [error |-> "",
              items |-> items_from(reg, u, 1, ds.scope,
                           selected_syntax(reg, load_resource(fs, reg[u].path)))]

NoList == [sf |-> "", error |-> "", items |-> <<>>]

\* input(args) without a dialect_file makes the handler when syntax_file
\* resolves; the host then asks it for its items.
ListItems(sf) ==
    /\ syntax_from_path(registry, sf) # 0
    /\ LET result == list_items(registry, files,
                                syntax_from_path(registry, sf))
       IN  listed' = [sf |-> sf, error |-> result.error,
                      items |-> result.items]
    /\ UNCHANGED <<registry, files, last, procs, files0>>

----------------------------------------------------------------------------
(* SetDefaultSyntaxDialect.run *)

\* Mutant: the dialect is validated before the target syntax.
validate_dialect_first(reg, sf, df) ==
    IF syntax_from_path(reg, df) = 0
    THEN <<"is no valid syntax", df>>
    ELSE IF syntax_from_path(reg, sf) = 0
    THEN <<"is no valid target syntax", sf>>
    ELSE NoDiag

\* The two validations: the diagnostic printed, NoDiag when both resolve.
validate(reg, sf, df) ==
    IF syntax_from_path(reg, sf) = 0
    THEN <<"is no valid target syntax", sf>>
    ELSE IF syntax_from_path(reg, df) = 0
    THEN <<"is no valid syntax", df>>
    ELSE NoDiag

\* Mutant: the replacement lacks \1, so the match's prefix is lost.
RECURSIVE SubDropsGroupFrom(_, _, _)
SubDropsGroupFrom(c, repl, i) ==
    IF i > Len(c) THEN <<>>
    ELSE LET m == MatchAt(c, i)
         IN  IF m.ok
             THEN repl \o SubDropsGroupFrom(c, repl, m.te)
             ELSE <<c[i]>> \o SubDropsGroupFrom(c, repl, i + 1)

new_content_drops_group(old, dialect_path) ==
    SubDropsGroupFrom(old, <<dialect_path>>, 1)

\* Mutant: the pattern lacks the trailing \S+, so the path is put in front
\* of the old token.
RECURSIVE SubInsertsFrom(_, _, _)
SubInsertsFrom(c, repl, i) ==
    IF i > Len(c) THEN <<>>
    ELSE LET m == MatchAt(c, i)
         IN  IF m.ok
             THEN SubSeq(c, i, m.ts - 1) \o repl \o SubSeq(c, m.ts, m.te - 1)
                  \o SubInsertsFrom(c, repl, m.te)
             ELSE <<c[i]>> \o SubInsertsFrom(c, repl, i + 1)

new_content_inserts(old, dialect_path) ==
    SubInsertsFrom(old, <<dialect_path>>, 1)

\* Mutant: re.sub with count=1, only the first match is replaced.
new_content_first_only(old, dialect_path) ==
    LET m == Search(old, 1)
    IN  IF m.ok
        THEN SubSeq(old, 1, m.ts - 1) \o <<dialect_path>>
             \o SubSeq(old, m.te, Len(old))
        ELSE old

\* The text run computes from the old text and the dialect's path.
new_content(old, dialect_path) == Sub(old, <<dialect_path>>)

\* Mutant: the file is written even when the text is the same.
never_unchanged(old, new) == FALSE

\* old_content == new_content: the write is skipped.
unchanged(old, new) == old = new

\* The whole of run(syntax_file, dialect_file) on registry reg and files fs:
\* the files after it and the record of what it did.
run(reg, fs, sf, df) ==
    LET diag == validate(reg, sf, df)
        call == [NoCall EXCEPT !.op = "run", !.sf = sf, !.df = df]
    IN  IF diag # NoDiag
        THEN [files |-> fs, rec |-> [call EXCEPT !.diag = diag]]
        ELSE LET path == reg[syntax_from_path(reg, sf)].path
                 old == load_resource(fs, path)
                 new == new_content(old, reg[syntax_from_path(reg, df)].path)
             IN  IF unchanged(old, new)
                 THEN [files |-> fs,
                       rec |-> [call EXCEPT !.read = TRUE, !.old = old,
                                            !.new = new]]
                 ELSE [files |-> write_file(fs, path, new),
                       rec |-> [call EXCEPT !.read = TRUE, !.wrote = TRUE,
                                            !.old = old, !.new = new]]

Run(sf, df) ==
    /\ LET result == run(registry, files, sf, df)
       IN  files' = result.files /\ last' = result.rec
    /\ listed' = NoList
    /\ UNCHANGED <<registry, procs, files0>>

----------------------------------------------------------------------------
(* Bounded inputs *)

MaxParts == 4

\* The pieces texts are made of; resource paths come into a text by run.
Parts == {<<Extends, Space>>, <<Extends>>, <<Space>>, <<Newline>>, <<Dash>>,
          <<Other>>}

RECURSIVE ContentsUpTo(_)
ContentsUpTo(n) ==
    IF n = 0 THEN {<<>>}
    ELSE LET S == ContentsUpTo(n - 1)
         IN  S \cup {s \o p : s \in S, p \in Parts}

PlainContent == <<Other, Newline>>

ArgPaths == PathSet \cup {BadPath}

\* Three syntaxes: an umbrella and two dialects of it.
FixedRegistry ==
    <<[path |-> Path1, name |-> SyntaxNames[1], scope |-> <<"a", ".", "a">>,
       hidden |-> FALSE],
      [path |-> Path2, name |-> SyntaxNames[2],
       scope |-> <<"a", ".", "a", ".", "a">>, hidden |-> FALSE],
      [path |-> Path3, name |-> SyntaxNames[3],
       scope |-> <<"a", ".", "a", "a">>, hidden |-> FALSE]>>

----------------------------------------------------------------------------
(* Specification of run on every text of the first syntax's file *)

InitPatch ==
    /\ registry = FixedRegistry
    /\ \E c \in ContentsUpTo(MaxParts) :
           files = [p \in PathSet |-> IF p = Path1 THEN c ELSE PlainContent]
    /\ last = NoCall
    /\ listed = NoList
    /\ hist = <<>>
    /\ procs = <<>>
    /\ files0 = files

NextPatch ==
    \E sf \in ArgPaths, df \in ArgPaths : Run(sf, df) /\ UNCHANGED hist

SpecPatch == InitPatch /\ [][NextPatch]_vars
----------------------------------------------------------------------------
(* Specification of sequences of calls of run, with their history *)

MaxCalls == 3

\* Texts of the first syntax's file: no directive, a plain directive, the
\* list form, a token that is no path, a lone dash as the token, a directive
\* that is not at the start of its line, and two directives.
SampleContents ==
    {PlainContent,
     <<Other, Newline, Extends, Space, Path2, Newline, Other>>,
     <<Extends, Newline, Space, Space, Dash, Space, Path3, Newline>>,
     <<Extends, Space, Other, Other>>,
     <<Extends, Space, Dash>>,
     <<Space, Extends, Space, Path2>>,
     <<Extends, Space, Path2, Newline, Extends, Space, Dash, Space, Path3>>}

InitSeq ==
    /\ registry = FixedRegistry
    /\ \E c \in SampleContents :
           files = [p \in PathSet |-> IF p = Path1 THEN c ELSE PlainContent]
    /\ last = NoCall
    /\ listed = NoList
    /\ hist = <<>>
    /\ procs = <<>>
    /\ files0 = files

NextSeq ==
    /\ Len(hist) < MaxCalls
    /\ \E sf \in ArgPaths, df \in ArgPaths : Run(sf, df)
    /\ hist' = Append(hist, last')

SpecSeq == InitSeq /\ [][NextSeq]_vars

----------------------------------------------------------------------------
(* Specification of list_items on every registry *)

MaxScopeLen == 3

ScopeChars == {"a", "."}

RECURSIVE ScopesUpTo(_)
ScopesUpTo(n) ==
    IF n = 0 THEN {<<>>}
    ELSE LET S == ScopesUpTo(n - 1)
         IN  S \cup {Append(s, ch) : s \in S, ch \in ScopeChars}

Syntax(i, scope, hidden) ==
    [path |-> SyntaxPaths[i], name |-> SyntaxNames[i], scope |-> scope,
     hidden |-> hidden]

RegistriesOver(scopes1, scopes) ==
    {<<Syntax(1, s1, h1), Syntax(2, s2, h2), Syntax(3, s3, h3)>> :
        s1 \in scopes1, s2 \in scopes, s3 \in scopes,
        h1 \in BOOLEAN, h2 \in BOOLEAN, h3 \in BOOLEAN}

\* The first syntax extends the second, the second extends the third in
\* the list form, the third extends nothing.
EnumFiles ==
    [p \in PathSet |->
        IF p = Path1 THEN <<Extends, Space, Path2>>
        ELSE IF p = Path2
        THEN <<Extends, Newline, Space, Space, Dash, Space, Path3, Newline>>
        ELSE PlainContent]

InitEnum ==
    /\ registry \in RegistriesOver(ScopesUpTo(MaxScopeLen),
                                   ScopesUpTo(MaxScopeLen))
    /\ files = EnumFiles
    /\ last = NoCall
    /\ listed = NoList
    /\ hist = <<>>
    /\ procs = <<>>
    /\ files0 = files

NextEnum ==
    \E sf \in ArgPaths : ListItems(sf) /\ UNCHANGED hist

SpecEnum == InitEnum /\ [][NextEnum]_vars

----------------------------------------------------------------------------
(* Specification of run and list_items together *)

\* Umbrella scopes: two segments, and one segment only.
UmbrellaScopes == {<<"a", ".", "a">>, <<"a">>}

\* Dialect scopes: one the umbrella's prefix matches, one it does not.
DialectScopes == {<<"a", ".", "a", "a">>, <<"a", ".">>}

InitList ==
    /\ registry \in RegistriesOver(UmbrellaScopes, DialectScopes)
    /\ \E c \in SampleContents :
           files = [p \in PathSet |-> IF p = Path1 THEN c ELSE PlainContent]
    /\ last = NoCall
    /\ listed = NoList
    /\ hist = <<>>
    /\ procs = <<>>
    /\ files0 = files

NextList ==
    \/ \E sf \in ArgPaths, df \in ArgPaths : Run(sf, df) /\ UNCHANGED hist
    \/ \E sf \in ArgPaths : ListItems(sf) /\ UNCHANGED hist

SpecList == InitList /\ [][NextList]_vars

----------------------------------------------------------------------------
(* Two invocations of run at once: each reads the whole file in one step   *)
(* and overwrites it in another.                                           *)

ProcIds == {1, 2}

\* Lines 133-156 for invocation p: validate, load, substitute, compare.
Begin(p) ==
    /\ procs[p].pc = "start"
    /\ IF validate(registry, procs[p].sf, procs[p].df) # NoDiag
       THEN procs' = [procs EXCEPT ![p].pc = "done"]
       ELSE LET path == registry[syntax_from_path(registry, procs[p].sf)].path
                dialect == registry[syntax_from_path(registry, procs[p].df)].path
                old == load_resource(files, path)
                new == new_content(old, dialect)
            IN  procs' = [procs EXCEPT
                             ![p].pc = IF unchanged(old, new) THEN "done"
                                       ELSE "write",
                             ![p].new = new]
    /\ UNCHANGED <<registry, files, last, listed, hist, files0>>

\* Lines 159-165 for invocation p: overwrite the file.
Write(p) ==
    /\ procs[p].pc = "write"
    /\ files' = write_file(files,
                           registry[syntax_from_path(registry, procs[p].sf)].path,
                           procs[p].new)
    /\ procs' = [procs EXCEPT ![p].pc = "done", ![p].wrote = TRUE]
    /\ UNCHANGED <<registry, last, listed, hist, files0>>

InitConc ==
    /\ registry = FixedRegistry
    /\ \E c \in SampleContents :
           files = [p \in PathSet |-> IF p = Path1 THEN c ELSE PlainContent]
    /\ last = NoCall
    /\ listed = NoList
    /\ hist = <<>>
    /\ procs \in [ProcIds -> [sf : ArgPaths, df : ArgPaths, pc : {"start"},
                              new : {<<>>}, wrote : {FALSE}]]
    /\ files0 = files

NextConc == \E p \in ProcIds : Begin(p) \/ Write(p)

SpecConc == InitConc /\ [][NextConc]_vars
----------------------------------------------------------------------------
(* What the properties speak of: the matches of the pattern in a text      *)

\* re.finditer: the non-overlapping matches from index i on, left to right.
RECURSIVE FindAll(_, _)
FindAll(c, i) ==
    IF i > Len(c) THEN <<>>
    ELSE LET m == MatchAt(c, i)
         IN  IF m.ok THEN <<m>> \o FindAll(c, m.te) ELSE FindAll(c, i + 1)

\* The target tokens of a text, in order.
Tokens(c) ==
    LET ms == FindAll(c, 1)
    IN  [k \in 1..Len(ms) |-> SubSeq(c, ms[k].ts, ms[k].te - 1)]

\* The text outside the target tokens: what precedes the first token (with
\* the "extends:" prefix and the list dash), what lies between two tokens,
\* and what follows the last.
Gaps(c) ==
    LET ms == FindAll(c, 1)
    IN  [k \in 1..(Len(ms) + 1) |->
            SubSeq(c, IF k = 1 THEN 1 ELSE ms[k - 1].te,
                      IF k = Len(ms) + 1 THEN Len(c) ELSE ms[k].ts - 1)]

HasMatch(c) == Search(c, 1).ok

\* The token of the first directive of a text.
FirstToken(c) == SubSeq(c, Search(c, 1).ts, Search(c, 1).te - 1)

Resolves(path) == \E i \in DOMAIN registry : registry[i].path = path

SyntaxAt(path) == CHOOSE i \in DOMAIN registry : registry[i].path = path

\* The positions of the dots of a scope.
Dots(scope) == {i \in DOMAIN scope : scope[i] = "."}

HasTwoSegments(scope) == Dots(scope) # {}

\* The first two dot-segments of a scope: all before its second dot.
FirstTwoSegments(scope) ==
    IF Cardinality(Dots(scope)) >= 2
    THEN LET d1 == CHOOSE i \in Dots(scope) : \A j \in Dots(scope) : i <= j
             d2 == CHOOSE i \in Dots(scope) \ {d1} :
                       \A j \in Dots(scope) \ {d1} : i <= j
         IN  SubSeq(scope, 1, d2 - 1)
    ELSE scope

IsPrefixOf(prefix, s) ==
    /\ Len(prefix) <= Len(s)
    /\ \A i \in 1..Len(prefix) : s[i] = prefix[i]

\* Syntax i is a dialect candidate of the umbrella at path u.
IsDialectOf(i, u) ==
    /\ ~registry[i].hidden
    /\ registry[i].path # u
    /\ IsPrefixOf(FirstTwoSegments(registry[SyntaxAt(u)].scope),
                  registry[i].scope)

\* The values of the listed items that are marked as selected.
SelectedValues ==
    {listed.items[k].value : k \in {j \in DOMAIN listed.items :
                                       listed.items[j].kind = "Selected"}}

----------------------------------------------------------------------------
(* Properties *)

C2_InvalidPathNoEffect ==
    [][(last'.op = "run" /\ (~Resolves(last'.sf) \/ ~Resolves(last'.df))) =>
          /\ files' = files
          /\ ~last'.read
          /\ ~last'.wrote
          /\ last'.diag = IF ~Resolves(last'.sf)
                          THEN <<"is no valid target syntax", last'.sf>>
                          ELSE <<"is no valid syntax", last'.df>>]_vars

\* A run with neither path valid, made after a run that rewrote the file.
C2_Witness ==
    /\ last.op = "run"
    /\ ~Resolves(last.sf)
    /\ ~Resolves(last.df)
    /\ last.diag = <<"is no valid target syntax", last.sf>>
    /\ \E p \in PathSet : HasMatch(files[p]) /\ FirstToken(files[p]) = <<Path3>>

C5_ListedAreTheDialects ==
    (listed.sf # "" /\ HasTwoSegments(registry[SyntaxAt(listed.sf)].scope)) =>
        /\ listed.error = ""
        /\ \A i \in DOMAIN registry :
               IsDialectOf(i, listed.sf) <=>
                   \E k \in DOMAIN listed.items :
                       listed.items[k].value = registry[i].path
        /\ \A k \in DOMAIN listed.items :
               /\ Resolves(listed.items[k].value)
               /\ listed.items[k].text =
                      registry[SyntaxAt(listed.items[k].value)].name
        /\ \A k, l \in DOMAIN listed.items :
               k < l => SyntaxAt(listed.items[k].value)
                            < SyntaxAt(listed.items[l].value)

\* A list of two items made for an umbrella that is not the first syntax
\* of the registry and whose scope has more than two segments.
C5_Witness ==
    /\ listed.sf = Path2
    /\ Cardinality(Dots(registry[2].scope)) >= 2
    /\ Len(listed.items) = 2

\* C6 as claimed: if the umbrella's directive names D, and D is registered,
\* not hidden and scope-matching, exactly one listed item is marked
\* selected and it is D; with no directive no item is marked and the
\* candidates are still listed.
C6_NamedDialectIsSelected ==
    (listed.sf # "" /\ HasTwoSegments(registry[SyntaxAt(listed.sf)].scope)) =>
        LET text == files[listed.sf]
            scope == FirstTwoSegments(registry[SyntaxAt(listed.sf)].scope)
        IN  /\ (/\ HasMatch(text)
                /\ Len(FirstToken(text)) = 1
                /\ Resolves(FirstToken(text)[1])
                /\ ~registry[SyntaxAt(FirstToken(text)[1])].hidden
                /\ IsPrefixOf(scope,
                              registry[SyntaxAt(FirstToken(text)[1])].scope))
                   => SelectedValues = {FirstToken(text)[1]}
            /\ ~HasMatch(text) =>
                   /\ SelectedValues = {}
                   /\ listed.error = ""
                   /\ \A i \in DOMAIN registry :
                          IsDialectOf(i, listed.sf) =>
                              \E k \in DOMAIN listed.items :
                                  listed.items[k].value = registry[i].path

\* C6 amended: as claimed, for a D that is not the umbrella itself.
C6_NamedOtherDialectIsSelected ==
    (listed.sf # "" /\ HasTwoSegments(registry[SyntaxAt(listed.sf)].scope)) =>
        LET text == files[listed.sf]
        IN  /\ (/\ HasMatch(text)
                /\ Len(FirstToken(text)) = 1
                /\ Resolves(FirstToken(text)[1])
                /\ IsDialectOf(SyntaxAt(FirstToken(text)[1]), listed.sf))
                   => /\ SelectedValues = {FirstToken(text)[1]}
                      /\ Cardinality({k \in DOMAIN listed.items :
                             listed.items[k].kind = "Selected"}) = 1
            /\ ~HasMatch(text) =>
                   /\ SelectedValues = {}
                   /\ listed.error = ""
                   /\ \A i \in DOMAIN registry :
                          IsDialectOf(i, listed.sf) =>
                              \E k \in DOMAIN listed.items :
                                  listed.items[k].value = registry[i].path

\* A list with a selected item, for an umbrella whose directive is not on
\* the first line of its text.
C6_Witness ==
    /\ listed.sf # ""
    /\ SelectedValues # {}
    /\ files[listed.sf][1] # Extends

\* C7: for an umbrella whose scope has fewer than two segments list_items
\* fails with IndexError and returns no item.
C7_OneSegmentFailsFast ==
    (listed.sf # "" /\ ~HasTwoSegments(registry[SyntaxAt(listed.sf)].scope)) =>
        /\ listed.error = "IndexError"
        /\ listed.items = <<>>

\* A failed list for a one-segment umbrella whose scope another visible
\* syntax's scope starts with.
C7_Witness ==
    /\ listed.sf # ""
    /\ listed.error = "IndexError"
    /\ Len(registry[SyntaxAt(listed.sf)].scope) = 1
    /\ \E i \in DOMAIN registry :
           /\ registry[i].path # listed.sf
           /\ ~registry[i].hidden
           /\ IsPrefixOf(registry[SyntaxAt(listed.sf)].scope, registry[i].scope)

FirstOnlyReplaced(c, path) ==
    LET ms == FindAll(c, 1)
    IN  IF ms = <<>> THEN c
        ELSE SubSeq(c, 1, ms[1].ts - 1) \o <<path>>
             \o SubSeq(c, ms[1].te, Len(c))

\* The text with the token of each of the matches ms replaced, the last
\* match first.
RECURSIVE EachReplaced(_, _, _)
EachReplaced(c, ms, path) ==
    IF ms = <<>> THEN c
    ELSE LET m == ms[Len(ms)]
         IN  EachReplaced(SubSeq(c, 1, m.ts - 1) \o <<path>>
                              \o SubSeq(c, m.te, Len(c)),
                          SubSeq(ms, 1, Len(ms) - 1), path)

\* C9 as claimed: run substitutes on the first matching line only, every
\* later matching line is left as it was.
C9_OnlyFirstLineSubstituted ==
    (last.op = "run" /\ last.read) =>
        last.new = FirstOnlyReplaced(last.old, last.df)

\* C9 amended: run substitutes the target token of every match of the
\* pattern, one substitution for each matching line.
C9_EveryMatchSubstituted ==
    (last.op = "run" /\ last.read) =>
        /\ last.new = EachReplaced(last.old, FindAll(last.old, 1), last.df)
        /\ Len(Tokens(last.new)) = Len(Tokens(last.old))
        /\ \A k \in DOMAIN Tokens(last.new) : Tokens(last.new)[k] = <<last.df>>

\* A run on a text with two directives, neither naming the dialect.
C9_Witness ==
    /\ last.op = "run"
    /\ last.wrote
    /\ Len(Tokens(last.old)) = 2
    /\ \A k \in 1..2 : Tokens(last.old)[k] # <<last.df>>
    /\ Tokens(last.new) = <<(<<last.df>>), (<<last.df>>)>>

\* The files after invocation p alone, made on the files fs.
After(fs, p) == run(registry, fs, procs[p].sf, procs[p].df).files

====
